---------------------------- MODULE Spec2Model ----------------------------
(***************************************************************************)
(* Model of loolwsd/LOOLWSD.cpp: the per-connection WebSocket request      *)
(* handler of the master (WebSocketRequestHandler::handleRequest with its  *)
(* QueueHandler consumer thread) and the receive loop of a child process   *)
(* (LOOLWSD::componentMain with its own QueueHandler).                     *)
(*                                                                         *)
(* A frame is the sequence of its characters.  Every frame the master      *)
(* receives gets a ghost number (its position in rlog); the number travels *)
(* with the text through the queues and the wire so that properties can    *)
(* name one particular frame.  The "eof" element the receiver injects at   *)
(* close carries number 0.                                                 *)
(***************************************************************************)
EXTENDS Integers, Sequences, FiniteSets, TLC

\* ------------------------------------------------------------------ bounds
MaxFrames == 3

\* ------------------------------------------------------- program constants
npos == -1
MASTER_PORT_NUMBER == "MASTER_PORT_NUMBER"
DEFAULT_CLIENT_PORT_NUMBER == "DEFAULT_CLIENT_PORT_NUMBER"
CHILD_URI == "/loolws/child/"

\* ------------------------------------------------------------- frame texts
TileA == <<"t", "i", "l", "e", " ", "x">>
TileB == <<"t", "i", "l", "e", " ", "y">>
TileId == <<"t", "i", "l", "e", " ", "i", "d", "=", "7">>
KeyMsg == <<"k", "e", "y">>
CancelMsg == <<"c", "a", "n", "c", "e", "l", "t", "i", "l", "e", "s">>
EofMsg == <<"e", "o", "f">>
NextMsg == <<"n", "e", "x", "t", "m", "e", "s", "s", "a", "g", "e", ":", " ", "s", "i", "z", "e", "=", "3">>
Payload == <<"a", "\n", "b">>

\* The frames a peer may send in the unscripted specification.
Frames == {TileA, TileId, KeyMsg, CancelMsg, EofMsg, NextMsg, Payload}

\* Scenario "cancel fast path": two tiles without id=, then canceltiles.
CancelScenario == <<TileA, TileB, CancelMsg>>

\* String literals of the source.
TilePrefix == <<"t", "i", "l", "e", " ">>
IdMark == <<"i", "d", "=">>
EofText == <<"e", "o", "f">>
CancelTok == <<"c", "a", "n", "c", "e", "l", "t", "i", "l", "e", "s">>
NextTok == <<"n", "e", "x", "t", "m", "e", "s", "s", "a", "g", "e", ":">>
SizeName == <<"s", "i", "z", "e">>
Digits == <<"0", "1", "2", "3", "4", "5", "6", "7", "8", "9">>
Whitespace == {" ", "\t", "\r", "\n"}

\* --------------------------------------------------------- string helpers
\* pat occurs in x at 0-based offset i
MatchAt(x, pat, i) ==
    /\ i + Len(pat) <= Len(x)
    /\ \A k \in 1..Len(pat) : x[i + k] = pat[k]

\* std::string::find: 0-based offset of the first occurrence, or npos
Find(x, pat) ==
    LET hits == {i \in 0..(Len(x) - Len(pat)) : MatchAt(x, pat, i)}
    IN  IF hits = {} THEN npos
        ELSE CHOOSE i \in hits : \A j \in hits : i <= j

\* LOOLProtocol::getFirstLine: the bytes before the first newline
getFirstLine(buffer) ==
    LET nl == Find(buffer, <<"\n">>)
    IN  IF nl = npos THEN buffer ELSE SubSeq(buffer, 1, nl)

RECURSIVE TrimLeft(_)
TrimLeft(s) ==
    IF s # <<>> /\ Head(s) \in Whitespace THEN TrimLeft(Tail(s)) ELSE s

RECURSIVE TrimRight(_)
TrimRight(s) ==
    IF s # <<>> /\ s[Len(s)] \in Whitespace
    THEN TrimRight(SubSeq(s, 1, Len(s) - 1)) ELSE s

Trim(s) == TrimRight(TrimLeft(s))

\* Poco::StringTokenizer(line, " ", TOK_IGNORE_EMPTY | TOK_TRIM)
RECURSIVE Split(_, _, _)
Split(s, cur, acc) ==
    LET flush == IF Trim(cur) = <<>> THEN acc ELSE Append(acc, Trim(cur))
    IN  IF s = <<>> THEN flush
        ELSE IF Head(s) = " " THEN Split(Tail(s), <<>>, flush)
        ELSE Split(Tail(s), Append(cur, Head(s)), acc)

StringTokenizer(line) == Split(line, <<>>, <<>>)

DigitValue(c) == (CHOOSE i \in 1..10 : Digits[i] = c) - 1

IsDigit(c) == \E i \in 1..10 : Digits[i] = c

RECURSIVE ParseInt(_, _)
ParseInt(s, acc) ==
    IF s = <<>> THEN acc ELSE ParseInt(Tail(s), 10 * acc + DigitValue(Head(s)))

\* LOOLProtocol::getTokenInteger(token, name, value): token is name=<int>
getTokenInteger(token, name) ==
    LET k == Len(name)
        rest == SubSeq(token, k + 2, Len(token))
        ok == /\ Len(token) > k + 1
              /\ SubSeq(token, 1, k) = name
              /\ token[k + 1] = "="
              /\ \A i \in 1..Len(rest) : IsDigit(rest[i])
    IN  [ok |-> ok, value |-> IF ok THEN ParseInt(rest, 0) ELSE 0]

\* tokens.count() == 1 && tokens[0] == "canceltiles"
IsCancelTiles(tokens) == Len(tokens) = 1 /\ tokens[1] = CancelTok

\* tokens.count() == 2 && tokens[0] == "nextmessage:" &&
\* getTokenInteger(tokens[1], "size", size) && size > 0
IsNextMessage(tokens) ==
    /\ Len(tokens) = 2
    /\ tokens[1] = NextTok
    /\ getTokenInteger(tokens[2], SizeName).ok
    /\ getTokenInteger(tokens[2], SizeName).value > 0

NextMessageSize(tokens) == getTokenInteger(tokens[2], SizeName).value

\* remove_if lambda with the id= test inverted
TilePredicateInverted(x) == Find(x, TilePrefix) = 0 /\ Find(x, IdMark) # npos

\* remove_if lambda without the id= test
TilePredicateAnyTile(x) == Find(x, TilePrefix) = 0

\* the lambda given to queue.remove_if
TilePredicate(x) == Find(x, TilePrefix) = 0 /\ Find(x, IdMark) = npos

\* ------------------------------------------------------------------ state
VARIABLES
    client,     \* what the peer of the master's connection sends
    paired,     \* a child is paired with the master session
    request,    \* the HTTP request: Upgrade header, URI, server port
    kind,       \* LOOLSession::Kind of the master session
    rpc,        \* position of the master's receiver (handleRequest)
    rbuf,       \* frame the receiver is passing to handleInput
    rsize,      \* size announced by a pending "nextmessage:"
    queue,      \* tsqueue<std::string> of handleRequest
    cpc,        \* position of the master's QueueHandler thread
    cin,        \* input the master's QueueHandler is handling
    rlog,       \* ghost: texts received by the master, in receive order
    handled,    \* ghost: calls of the master session's handleInput
    seen,       \* ghost: numbers queued when a canceltiles pruned the queue
    exc,        \* ghost: "caught" or "uncaught" once handleRequest threw
    failed,     \* ghost: a handleInput of the master session returned false
    wire,       \* frames forwarded to the child, not yet received by it
    crpc,       \* position of the child's receiver (componentMain)
    cqueue,     \* tsqueue<std::string> of componentMain
    ccpc,       \* position of the child's QueueHandler thread
    ccin,       \* input the child's QueueHandler is handling
    chandled,   \* ghost: calls of the child session's handleInput
    cseen       \* ghost: numbers queued when the child pruned its queue

\* The processes of the server: the one the user starts (main, loolMain),
\* the one it forks to run desktopMain, and those forked by createComponent
\* to run componentMain.  Each is a record of its position, its copies of
\* the statics of LOOLWSD and MasterProcessSession, and its exit status.
VARIABLES
    lool,       \* the process running main and loolMain
    desktop,    \* the process running desktopMain
    comp,       \* the processes running componentMain, by pid
    sys         \* what the processes share: the option --numprespawns, the
                \* named mutex "loolwsd"; and the ghosts of the run

supVars == <<lool, desktop, comp, sys>>

\* The thread of loolMain that runs FileTransferHandler, and the files its
\* commands name.
VARIABLES
    transfer    \* the handler's position, command and reply; the filesystem

sessionVars == <<client, paired, request, kind, rpc, rbuf, rsize, queue, cpc, cin,
                 rlog, handled, seen, exc, failed, wire, crpc, cqueue, ccpc, ccin,
                 chandled, cseen>>

vars == <<client, paired, request, kind, rpc, rbuf, rsize, queue, cpc, cin, rlog,
          handled, seen, exc, failed, wire, crpc, cqueue, ccpc, ccin, chandled, cseen,
          supVars, transfer>>

masterVars == <<client, paired, request, kind, rpc, rbuf, rsize, queue, cpc, cin,
                rlog, handled, seen, exc, failed>>
childVars == <<crpc, cqueue, ccpc, ccin, chandled, cseen>>

None == [id |-> 0, text |-> <<>>]
EofElem == [id |-> 0, text |-> EofText]

Elem(i, t) == [id |-> i, text |-> t]

\* --------------------------------------------------------------- tsqueue
put(q, e) == Append(q, e)
\* a remove_if that hands back the elements it keeps last first
remove_if_reversed(q) ==
    [i \in 1..Len(SelectSeq(q, LAMBDA e : ~TilePredicate(e.text))) |->
        SelectSeq(q, LAMBDA e : ~TilePredicate(e.text))
            [Len(SelectSeq(q, LAMBDA e : ~TilePredicate(e.text))) + 1 - i]]
\* remove_if with the lambda of the source as its predicate
remove_if(q) == SelectSeq(q, LAMBDA e : ~TilePredicate(e.text))
clear(q) == <<>>
IdsOf(q) == {q[i].id : i \in DOMAIN q}

\* ------------------------------------------------------- unsigned words
\* Unsigned integers as their bits, bit 0 the lowest.  _rng.next() yields a
\* 32-bit word; _childId is a Poco::UInt64.
DrawBits == 32
IdBits == 64

Zero32 == [i \in 0..(DrawBits - 1) |-> 0]
Max32 == [i \in 0..(DrawBits - 1) |-> 1]
Zero64 == [i \in 0..(IdBits - 1) |-> 0]
One64 == [i \in 0..(IdBits - 1) |-> IF i = 0 THEN 1 ELSE 0]

\* What _rng.next() returns, call after call, is fixed by the state of the
\* generator: the streams the runs are checked with.  Between them the
\* statement is run with every pair of an all-zero and an all-one draw.
Streams == {<<Zero32, Zero32, Max32, Max32>>, <<Zero32, Max32, Max32, Zero32>>}

\* conversion of a 32-bit word to Poco::UInt64
Widen(d) == [i \in 0..(IdBits - 1) |-> IF i < DrawBits THEN d[i] ELSE 0]

\* v << n on 64 bits: the bits shifted past the top are lost
ShiftLeft(v, n) == [i \in 0..(IdBits - 1) |-> IF i >= n THEN v[i - n] ELSE 0]

BitOr(a, b) == [i \in 0..(IdBits - 1) |-> IF a[i] = 1 \/ b[i] = 1 THEN 1 ELSE 0]

\* the statement without its "| 1"
NewChildIdNoLowBit(d1, d2) == BitOr(ShiftLeft(Widen(d1), DrawBits), Widen(d2))

\* (((Poco::UInt64)_rng.next()) << 32) | _rng.next() | 1
NewChildId(d1, d2) ==
    BitOr(BitOr(ShiftLeft(Widen(d1), DrawBits), Widen(d2)), One64)

\* -------------------------------------------------------------- processes
MaxChildren == 2
MaxPreSpawn == 2

Pids == 1..MaxChildren

Proc(k, p) == [kind |-> k, pid |-> p]
NoProc == Proc("none", 0)
MainProc == Proc("main", 0)
DesktopProc == Proc("desktop", 0)
Component(p) == Proc("component", p)

\* the two template trees in the order nftw(FTW_DEPTH) reports their
\* entries: sysTemplate, then loTemplate
Templates == << <<"FTW_F", "FTW_DP">>, <<"FTW_F", "FTW_SLN", "FTW_DP">> >>

\* no process forked for this pid
NoComp == [pc |-> "none", childId |-> Zero64, jail |-> <<>>, status |-> "",
           origin |-> "", locked |-> FALSE, tried |-> FALSE, hello |-> FALSE,
           reaped |-> FALSE]

\* a process that does not exist (yet)
NoProcess ==
    [pc |-> "none", childId |-> Zero64, rng |-> <<>>, firstDraw |-> Zero32,
     rngMutex |-> FALSE, childProcesses |-> {}, status |-> ""]

\* the part of the desktop process that the main process has no use for
NoDesktop ==
    [walk |-> [tree |-> 0, at |-> 0], jailFiles |-> {}, linkTried |-> {},
     jail |-> <<>>, nCntr |-> 0, listening |-> {}, pending |-> 0,
     available |-> 0]

\* the process tree is not in the picture
NoSupervisor ==
    /\ lool = <<>>
    /\ desktop = <<>>
    /\ comp = <<>>
    /\ sys = <<>>

\* the file-transfer thread is not in the picture
NoTransfer == transfer = <<>>

\* ------------------------------------------------------------------- init
\* no child process in the picture
NoChild ==
    /\ wire = <<>>
    /\ crpc = "none"
    /\ cqueue = <<>>
    /\ ccpc = "none"
    /\ ccin = None
    /\ chandled = <<>>
    /\ cseen = {}

\* componentMain has connected, said hello and started its QueueHandler
InitChild ==
    /\ crpc = "recv"
    /\ cqueue = <<>>
    /\ ccpc = "get"
    /\ ccin = None
    /\ chandled = <<>>
    /\ cseen = {}

\* handleRequest is entered, with its locals constructed
InitMaster ==
    /\ kind = "none"
    /\ rpc = "start"
    /\ rbuf = None
    /\ rsize = 0
    /\ queue = <<>>
    /\ cpc = "idle"
    /\ cin = None
    /\ rlog = <<>>
    /\ handled = <<>>
    /\ seen = {}
    /\ exc = "none"
    /\ failed = FALSE

\* One connection accepted by the master, whose peer sends any frames.
InitConnection ==
    /\ NoSupervisor
    /\ NoTransfer
    /\ client = [free |-> TRUE, script |-> <<>>]
    /\ paired = FALSE
    /\ request \in [upgrade : BOOLEAN,
                    uri : {CHILD_URI, "/ws"},
                    port : {MASTER_PORT_NUMBER, DEFAULT_CLIENT_PORT_NUMBER}]
    /\ InitMaster
    /\ NoChild

\* One child process on its own: the frames the master will send it are
\* in flight on the wire, numbered in the order sent.
WireContents ==
    {[i \in 1..n |-> Elem(i, s[i])] :
        n \in 0..MaxFrames, s \in [1..MaxFrames -> Frames]}

InitAlone ==
    /\ NoSupervisor
    /\ NoTransfer
    /\ client = [free |-> FALSE, script |-> <<>>]
    /\ paired = FALSE
    /\ request = [upgrade |-> FALSE, uri |-> "/ws",
                  port |-> DEFAULT_CLIENT_PORT_NUMBER]
    /\ kind = "none"
    /\ rpc = "none"
    /\ rbuf = None
    /\ rsize = 0
    /\ queue = <<>>
    /\ cpc = "idle"
    /\ cin = None
    /\ rlog = <<>>
    /\ handled = <<>>
    /\ seen = {}
    /\ exc = "none"
    /\ failed = FALSE
    /\ InitChild
    /\ wire \in WireContents

Init == InitConnection \/ InitAlone

\* The cancel scenario end to end: an upgraded connection on the public
\* port whose client sends the three frames of the scenario and nothing
\* else, and the child paired with the session.
InitScenario ==
    /\ NoSupervisor
    /\ NoTransfer
    /\ client = [free |-> FALSE, script |-> CancelScenario]
    /\ paired = TRUE
    /\ request = [upgrade |-> TRUE, uri |-> "/ws",
                  port |-> DEFAULT_CLIENT_PORT_NUMBER]
    /\ InitMaster
    /\ wire = <<>>
    /\ InitChild

\* frames the peer may send next
NextFrames ==
    IF client.free
    THEN IF Len(rlog) < MaxFrames THEN Frames ELSE {}
    ELSE IF client.script # <<>> THEN {Head(client.script)} ELSE {}

Sent ==
    client' = IF client.free THEN client
              ELSE [client EXCEPT !.script = Tail(client.script)]


\* ------------------------------------------- exceptions of the channel
\* Poco::Net::WebSocketException and Poco::IOException are caught by
\* handleRequest; Poco::TimeoutException is a RuntimeException and is not.
ExcTypes == {"WebSocketException", "IOException", "TimeoutException"}

Caught(e) == e \in {"WebSocketException", "IOException"}

\* what became of exception e
Outcome(e) == IF Caught(e) THEN "caught" ELSE "uncaught"

\* position of handleRequest after exception e left the try blocks
AfterThrow(e) == IF Caught(e) THEN "clear" ELSE "escaped"

Call(e, thread) == [id |-> e.id, text |-> e.text, by |-> thread]

\* ------------------------------------------------- master: handleRequest
\* Not an upgrade request: answer 400 and return.
Reject ==
    /\ rpc = "start"
    /\ ~request.upgrade
    /\ rpc' = "rejected"
    /\ UNCHANGED <<client, paired, request, kind, rbuf, rsize, queue, cpc, cin, rlog,
                   handled, seen, exc, wire>>
    /\ UNCHANGED failed
    /\ UNCHANGED childVars
    /\ UNCHANGED <<supVars, transfer>>

\* the polarity decided by the request URI alone
KindOfUriOnly(req) ==
    IF req.uri = CHILD_URI THEN "ToPrisoner" ELSE "ToClient"

KindOf(req) ==
    IF req.uri = CHILD_URI /\ req.port = MASTER_PORT_NUMBER
    THEN "ToPrisoner" ELSE "ToClient"

\* new WebSocket succeeds, the session is made, the consumer is started
Setup ==
    /\ rpc = "start"
    /\ request.upgrade
    /\ kind' = KindOf(request)
    /\ cpc' = IF KindOf(request) = "ToClient" THEN "get" ELSE "idle"
    /\ rpc' = "recv"
    /\ UNCHANGED <<client, paired, request, rbuf, rsize, queue, cin, rlog, handled,
                   seen, exc, wire>>
    /\ UNCHANGED failed
    /\ UNCHANGED childVars
    /\ UNCHANGED <<supVars, transfer>>

\* new WebSocket (or the session constructor) throws
SetupThrows ==
    /\ rpc = "start"
    /\ request.upgrade
    /\ \E e \in ExcTypes :
          /\ exc' = Outcome(e)
          /\ rpc' = AfterThrow(e)
    /\ UNCHANGED <<client, paired, request, kind, rbuf, rsize, queue, cpc, cin, rlog,
                   handled, seen, wire>>
    /\ UNCHANGED failed
    /\ UNCHANGED childVars
    /\ UNCHANGED <<supVars, transfer>>

\* the frame goes through the queue: ToClient and a single line
Queued(f) == kind = "ToClient" /\ Len(getFirstLine(f)) = Len(f)

\* "canceltiles" pruning the queue and then queued like any other frame
RecvCancelTilesQueued ==
    /\ rpc = "recv"
    /\ \E f \in NextFrames :
          /\ Queued(f)
          /\ IsCancelTiles(StringTokenizer(getFirstLine(f)))
          /\ rlog' = Append(rlog, f)
          /\ seen' = seen \cup IdsOf(queue)
          /\ queue' = put(remove_if(queue),
                          Elem(Len(rlog) + 1, getFirstLine(f)))
    /\ Sent
    /\ UNCHANGED <<paired, request, kind, rpc, rbuf, rsize, cpc, cin, handled,
                   exc, wire>>
    /\ UNCHANGED failed
    /\ UNCHANGED childVars
    /\ UNCHANGED <<supVars, transfer>>

\* "canceltiles": prune the queue, then call handleInput on this thread
RecvCancelTiles ==
    /\ rpc = "recv"
    /\ \E f \in NextFrames :
          /\ Queued(f)
          /\ IsCancelTiles(StringTokenizer(getFirstLine(f)))
          /\ rlog' = Append(rlog, f)
          /\ seen' = seen \cup IdsOf(queue)
          /\ queue' = remove_if(queue)
          /\ rbuf' = Elem(Len(rlog) + 1, f)
          /\ handled' = Append(handled, Call(Elem(Len(rlog) + 1, f), "receiver"))
    /\ rpc' = "forward"
    /\ Sent
    /\ UNCHANGED <<paired, request, kind, rsize, cpc, cin, exc, wire>>
    /\ UNCHANGED failed
    /\ UNCHANGED childVars
    /\ UNCHANGED <<supVars, transfer>>

\* any other single-line frame of a ToClient session: queue.put(firstLine)
RecvEnqueue ==
    /\ rpc = "recv"
    /\ \E f \in NextFrames :
          /\ Queued(f)
          /\ ~IsCancelTiles(StringTokenizer(getFirstLine(f)))
          /\ rlog' = Append(rlog, f)
          /\ queue' = put(queue, Elem(Len(rlog) + 1, getFirstLine(f)))
    /\ Sent
    /\ UNCHANGED <<paired, request, kind, rpc, rbuf, rsize, cpc, cin, handled, seen,
                   exc, wire>>
    /\ UNCHANGED failed
    /\ UNCHANGED childVars
    /\ UNCHANGED <<supVars, transfer>>

\* "nextmessage: size=N" outside the queued branch: read the follow-up next
RecvNextMessage ==
    /\ rpc = "recv"
    /\ \E f \in NextFrames :
          /\ ~Queued(f)
          /\ IsNextMessage(StringTokenizer(getFirstLine(f)))
          /\ rlog' = Append(rlog, f)
          /\ rsize' = NextMessageSize(StringTokenizer(getFirstLine(f)))
    /\ rpc' = "large"
    /\ Sent
    /\ UNCHANGED <<paired, request, kind, rbuf, queue, cpc, cin, handled, seen, exc,
                   wire>>
    /\ UNCHANGED failed
    /\ UNCHANGED childVars
    /\ UNCHANGED <<supVars, transfer>>

\* any other frame outside the queued branch: handleInput(buffer, n)
RecvDirect ==
    /\ rpc = "recv"
    /\ \E f \in NextFrames :
          /\ ~Queued(f)
          /\ ~IsNextMessage(StringTokenizer(getFirstLine(f)))
          /\ rlog' = Append(rlog, f)
          /\ rbuf' = Elem(Len(rlog) + 1, f)
          /\ handled' = Append(handled, Call(Elem(Len(rlog) + 1, f), "receiver"))
    /\ rpc' = "handle"
    /\ Sent
    /\ UNCHANGED <<paired, request, kind, rsize, queue, cpc, cin, seen, exc, wire>>
    /\ UNCHANGED failed
    /\ UNCHANGED childVars
    /\ UNCHANGED <<supVars, transfer>>

\* receiveFrame(largeBuffer, size, flags): a frame longer than size throws
\* WebSocketException, any other is passed to handleInput
RecvLarge ==
    /\ rpc = "large"
    /\ \E g \in NextFrames :
          /\ rlog' = Append(rlog, g)
          /\ IF Len(g) > rsize
             THEN /\ exc' = Outcome("WebSocketException")
                  /\ rpc' = AfterThrow("WebSocketException")
                  /\ UNCHANGED <<rbuf, handled>>
             ELSE /\ rbuf' = Elem(Len(rlog) + 1, g)
                  /\ handled' = Append(handled,
                                       Call(Elem(Len(rlog) + 1, g), "receiver"))
                  /\ rpc' = "handle"
                  /\ UNCHANGED exc
    /\ rsize' = 0
    /\ Sent
    /\ UNCHANGED <<paired, request, kind, queue, cpc, cin, seen, wire>>
    /\ UNCHANGED failed
    /\ UNCHANGED childVars
    /\ UNCHANGED <<supVars, transfer>>

\* a close frame or a frame of zero bytes ends the receive loop
RecvClose ==
    /\ rpc \in {"recv", "large"}
    /\ client.free \/ client.script = <<>>
    /\ rpc' = "clear"
    /\ rsize' = 0
    /\ UNCHANGED <<client, paired, request, kind, rbuf, queue, cpc, cin, rlog, handled,
                   seen, exc, wire>>
    /\ UNCHANGED failed
    /\ UNCHANGED childVars
    /\ UNCHANGED <<supVars, transfer>>

\* receiveFrame throws
RecvThrows ==
    /\ rpc \in {"recv", "large"}
    /\ \E e \in ExcTypes :
          /\ exc' = Outcome(e)
          /\ rpc' = AfterThrow(e)
    /\ rsize' = 0
    /\ UNCHANGED <<client, paired, request, kind, rbuf, queue, cpc, cin, rlog, handled,
                   seen, wire>>
    /\ UNCHANGED failed
    /\ UNCHANGED childVars
    /\ UNCHANGED <<supVars, transfer>>


\* what handleInput of the master session sends on to the child: a ToClient
\* session with a paired child forwards the frame unless the master answers
\* it itself
Forwarded(w, e, fwd) ==
    IF paired /\ kind = "ToClient" /\ fwd THEN Append(w, e) ELSE w

\* handleInput(buffer, n) returns on the receiver; false sets n = 0
HandleReturn ==
    /\ rpc = "handle"
    /\ \E ok \in BOOLEAN, fwd \in BOOLEAN :
          /\ wire' = Forwarded(wire, rbuf, fwd)
          /\ rpc' = IF ok THEN "recv" ELSE "clear"
          /\ failed' = (failed \/ ~ok)
    /\ rbuf' = None
    /\ UNCHANGED <<client, paired, request, kind, rsize, queue, cpc, cin, rlog, handled,
                   seen, exc>>
    /\ UNCHANGED childVars
    /\ UNCHANGED <<supVars, transfer>>

\* handleInput of the "canceltiles" frame returns; its result is not tested
ForwardReturn ==
    /\ rpc = "forward"
    /\ \E ok \in BOOLEAN, fwd \in BOOLEAN :
          /\ wire' = Forwarded(wire, rbuf, fwd)
          /\ failed' = (failed \/ ~ok)
    /\ rpc' = "recv"
    /\ rbuf' = None
    /\ UNCHANGED <<client, paired, request, kind, rsize, queue, cpc, cin, rlog, handled,
                   seen, exc>>
    /\ UNCHANGED childVars
    /\ UNCHANGED <<supVars, transfer>>

\* the close sequence without queue.clear()
QueueClearSkipped ==
    /\ rpc = "clear"
    /\ rpc' = "puteof"
    /\ UNCHANGED <<client, paired, request, kind, rbuf, rsize, queue, cpc, cin,
                   rlog, handled, seen, exc, wire>>
    /\ UNCHANGED failed
    /\ UNCHANGED childVars
    /\ UNCHANGED <<supVars, transfer>>

\* queue.clear()
QueueClear ==
    /\ rpc = "clear"
    /\ queue' = clear(queue)
    /\ rpc' = "puteof"
    /\ UNCHANGED <<client, paired, request, kind, rbuf, rsize, cpc, cin, rlog, handled,
                   seen, exc, wire>>
    /\ UNCHANGED failed
    /\ UNCHANGED childVars
    /\ UNCHANGED <<supVars, transfer>>

\* queue.put("eof")
PutEof ==
    /\ rpc = "puteof"
    /\ queue' = put(queue, EofElem)
    /\ rpc' = "join"
    /\ UNCHANGED <<client, paired, request, kind, rbuf, rsize, cpc, cin, rlog, handled,
                   seen, exc, wire>>
    /\ UNCHANGED failed
    /\ UNCHANGED childVars
    /\ UNCHANGED <<supVars, transfer>>

\* queueHandlerThread.join(): returns at once for a thread never started
Join ==
    /\ rpc = "join"
    /\ cpc \in {"idle", "exit"}
    /\ rpc' = "done"
    /\ UNCHANGED <<client, paired, request, kind, rbuf, rsize, queue, cpc, cin, rlog,
                   handled, seen, exc, wire>>
    /\ UNCHANGED failed
    /\ UNCHANGED childVars
    /\ UNCHANGED <<supVars, transfer>>

\* ------------------------------------------- master: QueueHandler::run
\* QueueHandler::run without the test for "eof"
AfterGetNoEof(input) == "handling"

\* position after _queue.get() returned input
AfterGet(input) == IF input.text = EofText THEN "exit" ELSE "handling"

ConsumerGet ==
    /\ cpc = "get"
    /\ queue # <<>>
    /\ queue' = Tail(queue)
    /\ cpc' = AfterGet(Head(queue))
    /\ IF AfterGet(Head(queue)) = "handling"
       THEN /\ cin' = Head(queue)
            /\ handled' = Append(handled, Call(Head(queue), "consumer"))
       ELSE UNCHANGED <<cin, handled>>
    /\ UNCHANGED <<client, paired, request, kind, rpc, rbuf, rsize, rlog, seen, exc,
                   wire>>
    /\ UNCHANGED failed
    /\ UNCHANGED childVars
    /\ UNCHANGED <<supVars, transfer>>

\* position after handleInput returned ok
AfterHandle(ok) == IF ok THEN "get" ELSE "exit"

ConsumerReturn ==
    /\ cpc = "handling"
    /\ \E ok \in BOOLEAN, fwd \in BOOLEAN :
          /\ wire' = Forwarded(wire, cin, fwd)
          /\ cpc' = AfterHandle(ok)
          /\ failed' = (failed \/ ~ok)
    /\ cin' = None
    /\ UNCHANGED <<client, paired, request, kind, rpc, rbuf, rsize, queue, rlog,
                   handled, seen, exc>>
    /\ UNCHANGED childVars
    /\ UNCHANGED <<supVars, transfer>>

\* An exception that escaped handleRequest destroyed queue and handler
\* while the consumer still uses them: besides going on with the stale
\* memory (the actions above) the thread may crash the process.
UseAfterFree ==
    /\ rpc = "escaped"
    /\ cpc \in {"get", "handling"}
    /\ cpc' = "crashed"
    /\ UNCHANGED <<client, paired, request, kind, rpc, rbuf, rsize, queue, cin, rlog,
                   handled, seen, exc, wire>>
    /\ UNCHANGED failed
    /\ UNCHANGED childVars
    /\ UNCHANGED <<supVars, transfer>>

\* ------------------------------------------------- child: componentMain
MultiLine(f) == Len(getFirstLine(f)) # Len(f)

\* the child treating "canceltiles" as any other frame: queue.put(firstLine)
ChildRecvCancelTilesQueued ==
    /\ crpc = "recv"
    /\ wire # <<>>
    /\ IsCancelTiles(StringTokenizer(getFirstLine(Head(wire).text)))
    /\ cqueue' = put(cqueue, Elem(Head(wire).id, getFirstLine(Head(wire).text)))
    /\ wire' = Tail(wire)
    /\ UNCHANGED <<crpc, ccpc, ccin, chandled, cseen>>
    /\ UNCHANGED masterVars
    /\ UNCHANGED <<supVars, transfer>>

\* "canceltiles": prune the queue; the frame is neither queued nor handled
ChildRecvCancelTiles ==
    /\ crpc = "recv"
    /\ wire # <<>>
    /\ IsCancelTiles(StringTokenizer(getFirstLine(Head(wire).text)))
    /\ cseen' = cseen \cup IdsOf(cqueue)
    /\ cqueue' = remove_if(cqueue)
    /\ wire' = Tail(wire)
    /\ UNCHANGED <<crpc, ccpc, ccin, chandled>>
    /\ UNCHANGED masterVars
    /\ UNCHANGED <<supVars, transfer>>

\* any other frame: queue.put(firstLine)
ChildRecvEnqueue ==
    /\ crpc = "recv"
    /\ wire # <<>>
    /\ ~IsCancelTiles(StringTokenizer(getFirstLine(Head(wire).text)))
    /\ cqueue' = put(cqueue, Elem(Head(wire).id, getFirstLine(Head(wire).text)))
    /\ wire' = Tail(wire)
    /\ UNCHANGED <<crpc, ccpc, ccin, chandled, cseen>>
    /\ UNCHANGED masterVars
    /\ UNCHANGED <<supVars, transfer>>

\* assert(firstLine.size() == n) in a build that keeps assertions: abort
ChildAssertFails ==
    /\ crpc = "recv"
    /\ wire # <<>>
    /\ MultiLine(Head(wire).text)
    /\ crpc' = "aborted"
    /\ ccpc' = "killed"
    /\ UNCHANGED <<wire, cqueue, ccin, chandled, cseen>>
    /\ UNCHANGED masterVars
    /\ UNCHANGED <<supVars, transfer>>

\* the master closes the connection to the child
ChildRecvClose ==
    /\ crpc = "recv"
    /\ wire = <<>>
    /\ crpc' = "clear"
    /\ UNCHANGED <<wire, cqueue, ccpc, ccin, chandled, cseen>>
    /\ UNCHANGED masterVars
    /\ UNCHANGED <<supVars, transfer>>

\* receiveFrame throws: the catch clauses log, then exit(EXIT_OK)
ChildRecvThrows ==
    /\ crpc = "recv"
    /\ crpc' = "exit"
    /\ ccpc' = IF ccpc = "exit" THEN ccpc ELSE "killed"
    /\ UNCHANGED <<wire, cqueue, ccin, chandled, cseen>>
    /\ UNCHANGED masterVars
    /\ UNCHANGED <<supVars, transfer>>

ChildQueueClear ==
    /\ crpc = "clear"
    /\ cqueue' = clear(cqueue)
    /\ crpc' = "puteof"
    /\ UNCHANGED <<wire, ccpc, ccin, chandled, cseen>>
    /\ UNCHANGED masterVars
    /\ UNCHANGED <<supVars, transfer>>

ChildPutEof ==
    /\ crpc = "puteof"
    /\ cqueue' = put(cqueue, EofElem)
    /\ crpc' = "join"
    /\ UNCHANGED <<wire, ccpc, ccin, chandled, cseen>>
    /\ UNCHANGED masterVars
    /\ UNCHANGED <<supVars, transfer>>

\* queueHandlerThread.join(), then exit(EXIT_OK)
ChildJoin ==
    /\ crpc = "join"
    /\ ccpc = "exit"
    /\ crpc' = "exit"
    /\ UNCHANGED <<wire, cqueue, ccpc, ccin, chandled, cseen>>
    /\ UNCHANGED masterVars
    /\ UNCHANGED <<supVars, transfer>>

\* -------------------------------------------- child: QueueHandler::run
ChildConsumerGet ==
    /\ ccpc = "get"
    /\ cqueue # <<>>
    /\ cqueue' = Tail(cqueue)
    /\ ccpc' = AfterGet(Head(cqueue))
    /\ IF AfterGet(Head(cqueue)) = "handling"
       THEN /\ ccin' = Head(cqueue)
            /\ chandled' = Append(chandled, Call(Head(cqueue), "consumer"))
       ELSE UNCHANGED <<ccin, chandled>>
    /\ UNCHANGED <<wire, crpc, cseen>>
    /\ UNCHANGED masterVars
    /\ UNCHANGED <<supVars, transfer>>

ChildConsumerReturn ==
    /\ ccpc = "handling"
    /\ \E ok \in BOOLEAN : ccpc' = AfterHandle(ok)
    /\ ccin' = None
    /\ UNCHANGED <<wire, crpc, cqueue, chandled, cseen>>
    /\ UNCHANGED masterVars
    /\ UNCHANGED <<supVars, transfer>>

\* ---------------------------------------------------------- specification
Receiver ==
    \/ Reject
    \/ Setup
    \/ SetupThrows
    \/ RecvCancelTiles
    \/ RecvEnqueue
    \/ RecvNextMessage
    \/ RecvDirect
    \/ RecvLarge
    \/ RecvClose
    \/ RecvThrows
    \/ HandleReturn
    \/ ForwardReturn
    \/ QueueClear
    \/ PutEof
    \/ Join

Consumer ==
    \/ ConsumerGet
    \/ ConsumerReturn
    \/ UseAfterFree

Child ==
    \/ ChildRecvCancelTiles
    \/ ChildRecvEnqueue
    \/ ChildAssertFails
    \/ ChildRecvClose
    \/ ChildRecvThrows
    \/ ChildQueueClear
    \/ ChildPutEof
    \/ ChildJoin
    \/ ChildConsumerGet
    \/ ChildConsumerReturn

\* Either one connection of the master or one child process on its own.
Next == Receiver \/ Consumer \/ Child

Spec == Init /\ [][Next]_vars

\* The cancel scenario end to end: client, master session, paired child.
NextScenario ==
    \/ Setup
    \/ SetupThrows
    \/ RecvCancelTiles
    \/ RecvEnqueue
    \/ RecvClose
    \/ RecvThrows
    \/ ForwardReturn
    \/ QueueClear
    \/ PutEof
    \/ Join
    \/ ConsumerGet
    \/ ConsumerReturn
    \/ UseAfterFree
    \/ ChildRecvCancelTiles
    \/ ChildRecvEnqueue
    \/ ChildRecvClose
    \/ ChildRecvThrows
    \/ ChildQueueClear
    \/ ChildPutEof
    \/ ChildJoin
    \/ ChildConsumerGet
    \/ ChildConsumerReturn

SpecScenario == InitScenario /\ [][NextScenario]_vars


\* =========================================================================
\* The process tree: main and loolMain, desktopMain, componentMain
\* =========================================================================
\* None of the sessions of the first part is in the picture.
NoSession ==
    /\ client = [free |-> FALSE, script |-> <<>>]
    /\ paired = FALSE
    /\ request = [upgrade |-> FALSE, uri |-> "/ws",
                  port |-> DEFAULT_CLIENT_PORT_NUMBER]
    /\ kind = "none"
    /\ rpc = "none"
    /\ rbuf = None
    /\ rsize = 0
    /\ queue = <<>>
    /\ cpc = "idle"
    /\ cin = None
    /\ rlog = <<>>
    /\ handled = <<>>
    /\ seen = {}
    /\ exc = "none"
    /\ failed = FALSE
    /\ NoChild

\* The user has started loolwsd with some --numprespawns; LOOLWSD() has
\* set _childId to 0.
InitSupervisor ==
    /\ NoSession
    /\ NoTransfer
    /\ \E stream \in Streams :
          lool = [NoProcess EXCEPT !.pc = "main", !.rng = stream]
    /\ desktop = NoProcess @@ NoDesktop
    /\ comp = [p \in Pids |-> NoComp]
    /\ \E n \in 0..MaxPreSpawn :
          sys = [numPreSpawnedChildren |-> n, namedMutex |-> NoProc,
                 fatal |-> {}, termReq |-> {}]

\* a startup-fatal error met by a process
Fatal(proc, err) == [proc |-> proc, err |-> err]

Failed(proc, err) == sys' = [sys EXCEPT !.fatal = @ \cup {Fatal(proc, err)}]

\* exit(status), or the return of main() with that status
Exit(process, status) == [process EXCEPT !.pc = "exited", !.status = status]

\* ------------------------------------------------------ main and loolMain
\* main(): the cache directory cannot be accessed
MainCacheInaccessible ==
    /\ lool.pc = "main"
    /\ lool' = Exit(lool, "EXIT_UNAVAILABLE")
    /\ Failed(MainProc, "cache")
    /\ UNCHANGED <<desktop, comp, sessionVars, transfer>>

\* main() finds the cache and the options in order and calls loolMain,
\* which locks _rngMutex
MainRngLock ==
    /\ lool.pc = "main"
    /\ ~lool.rngMutex
    /\ lool' = [lool EXCEPT !.pc = "draw1", !.rngMutex = TRUE]
    /\ UNCHANGED <<desktop, comp, sys, sessionVars, transfer>>

\* the first _rng.next() of the statement
MainDraw1 ==
    /\ lool.pc = "draw1"
    /\ lool' = [lool EXCEPT !.pc = "draw2", !.firstDraw = Head(lool.rng),
                            !.rng = Tail(@)]
    /\ UNCHANGED <<desktop, comp, sys, sessionVars, transfer>>

\* the second _rng.next() and the assignment to _childId
MainDraw2 ==
    /\ lool.pc = "draw2"
    /\ lool' = [lool EXCEPT !.pc = "rngunlock",
                            !.childId = NewChildId(lool.firstDraw, Head(lool.rng)),
                            !.rng = Tail(@),
                            !.firstDraw = Zero32]
    /\ UNCHANGED <<desktop, comp, sys, sessionVars, transfer>>

MainRngUnlock ==
    /\ lool.pc = "rngunlock"
    /\ lool' = [lool EXCEPT !.pc = "createDesktop", !.rngMutex = FALSE]
    /\ UNCHANGED <<desktop, comp, sys, sessionVars, transfer>>

\* startupDesktop(1): fork() succeeds.  The new process starts desktopMain
\* with a copy of the statics; the parent enters the pid in its table.
CreateDesktop ==
    /\ lool.pc = "createDesktop"
    /\ lool' = [lool EXCEPT !.pc = "dropcap",
                            !.childProcesses = @ \cup {DesktopProc}]
    /\ desktop' = [desktop EXCEPT !.pc = "rnglock", !.childId = lool.childId,
                                  !.rng = lool.rng]
    /\ UNCHANGED <<comp, sys, sessionVars, transfer>>

\* fork() fails: createDesktop returns EXIT_UNAVAILABLE, which is not < 0,
\* and loolMain goes on
CreateDesktopForkFails ==
    /\ lool.pc = "createDesktop"
    /\ lool' = [lool EXCEPT !.pc = "dropcap"]
    /\ Failed(MainProc, "fork")
    /\ UNCHANGED <<desktop, comp, sessionVars, transfer>>

\* dropCapability succeeds; the file transfer thread is started
MainDropCapability ==
    /\ lool.pc = "dropcap"
    /\ lool' = [lool EXCEPT !.pc = "waitpid"]
    /\ UNCHANGED <<desktop, comp, sys, sessionVars, transfer>>

\* cap_get_proc, cap_set_flag or cap_set_proc fails: exit(1)
MainDropCapabilityFails ==
    /\ lool.pc = "dropcap"
    /\ lool' = Exit(lool, "1")
    /\ Failed(MainProc, "capability")
    /\ UNCHANGED <<desktop, comp, sessionVars, transfer>>

\* waitpid(-1, &status, 0) returns: the desktop process has ended, or
\* there is no child to wait for
MainWait ==
    /\ lool.pc = "waitpid"
    /\ lool.childProcesses = {} \/ desktop.pc = "exited"
    /\ lool' = [lool EXCEPT !.pc = "terminate"]
    /\ UNCHANGED <<desktop, comp, sys, sessionVars, transfer>>

\* every pid of the table is requested to terminate; main returns EXIT_OK
MainTerminate ==
    /\ lool.pc = "terminate"
    /\ sys' = [sys EXCEPT !.termReq = @ \cup lool.childProcesses]
    /\ lool' = Exit(lool, "EXIT_OK")
    /\ UNCHANGED <<desktop, comp, sessionVars, transfer>>

\* ------------------------------------------------------------ desktopMain
DesktopRngLock ==
    /\ desktop.pc = "rnglock"
    /\ ~desktop.rngMutex
    /\ desktop' = [desktop EXCEPT !.pc = "draw1", !.rngMutex = TRUE]
    /\ UNCHANGED <<lool, comp, sys, sessionVars, transfer>>

DesktopDraw1 ==
    /\ desktop.pc = "draw1"
    /\ desktop' = [desktop EXCEPT !.pc = "draw2",
                                  !.firstDraw = Head(desktop.rng),
                                  !.rng = Tail(@)]
    /\ UNCHANGED <<lool, comp, sys, sessionVars, transfer>>

DesktopDraw2 ==
    /\ desktop.pc = "draw2"
    /\ desktop' = [desktop EXCEPT
                      !.pc = "rngunlock",
                      !.childId = NewChildId(desktop.firstDraw, Head(desktop.rng)),
                      !.rng = Tail(@),
                      !.firstDraw = Zero32]
    /\ UNCHANGED <<lool, comp, sys, sessionVars, transfer>>

DesktopRngUnlock ==
    /\ desktop.pc = "rngunlock"
    /\ desktop' = [desktop EXCEPT !.pc = "jail", !.rngMutex = FALSE]
    /\ UNCHANGED <<lool, comp, sys, sessionVars, transfer>>

\* desktopMain going from the jail directories straight to the forks
CreateJailOnly ==
    /\ desktop.pc = "jail"
    /\ desktop' = [desktop EXCEPT !.pc = "mutexlock",
                                  !.jail = <<desktop.childId>>]
    /\ UNCHANGED <<lool, comp, sys, sessionVars, transfer>>

\* the jail childRoot/<_childId> and its loSubPath directory are created
CreateJail ==
    /\ desktop.pc = "jail"
    /\ desktop' = [desktop EXCEPT !.pc = "link",
                                  !.jail = <<desktop.childId>>,
                                  !.walk = [tree |-> 1, at |-> 1]]
    /\ UNCHANGED <<lool, comp, sys, sessionVars, transfer>>

\* the typeflag nftw passes for the entry the walk is at
Typeflag == Templates[desktop.walk.tree][desktop.walk.at]

\* linkOrCopy returns: the next tree, or the end of the replication
NextTree(d) ==
    IF d.walk.tree < Len(Templates)
    THEN [d EXCEPT !.walk = [tree |-> d.walk.tree + 1, at |-> 1]]
    ELSE [d EXCEPT !.walk = [tree |-> 0, at |-> 0], !.pc = "mknod"]

\* linkOrCopyFunction returns 0: nftw goes to the next entry
NextEntry(d) ==
    IF d.walk.at < Len(Templates[d.walk.tree])
    THEN [d EXCEPT !.walk.at = @ + 1]
    ELSE NextTree(d)

Entry == <<desktop.walk.tree, desktop.walk.at>>

\* FTW_F: link() succeeds
LinkFile ==
    /\ desktop.pc = "link"
    /\ Typeflag = "FTW_F"
    /\ desktop' = NextEntry([desktop EXCEPT !.jailFiles = @ \cup {Entry},
                                            !.linkTried = @ \cup {Entry}])
    /\ UNCHANGED <<lool, comp, sys, sessionVars, transfer>>

\* FTW_F: link() returns -1: the error is logged and the process exits
LinkFileFails ==
    /\ desktop.pc = "link"
    /\ Typeflag = "FTW_F"
    /\ desktop' = Exit([desktop EXCEPT !.linkTried = @ \cup {Entry}], "1")
    /\ UNCHANGED <<lool, comp, sys, sessionVars, transfer>>

\* FTW_SLN: a symlink to a nonexistent file is logged and skipped
SkipSymlink ==
    /\ desktop.pc = "link"
    /\ Typeflag = "FTW_SLN"
    /\ desktop' = NextEntry(desktop)
    /\ UNCHANGED <<lool, comp, sys, sessionVars, transfer>>

\* FTW_DP: the directory is created and given the times of the source
VisitDirectory ==
    /\ desktop.pc = "link"
    /\ Typeflag = "FTW_DP"
    /\ desktop' = NextEntry([desktop EXCEPT !.jailFiles = @ \cup {Entry}])
    /\ UNCHANGED <<lool, comp, sys, sessionVars, transfer>>

\* stat or utime fails for a directory, or nftw reports the entry as
\* FTW_DNR or FTW_NS: the callback returns 1, nftw stops and returns 1,
\* which linkOrCopy does not take for a failure
WalkAborts ==
    /\ desktop.pc = "link"
    /\ Typeflag = "FTW_DP"
    /\ desktop' = NextTree(desktop)
    /\ UNCHANGED <<lool, comp, sys, sessionVars, transfer>>

\* /dev/random and /dev/urandom: a failing mknod is logged only
MakeDeviceNodes ==
    /\ desktop.pc = "mknod"
    /\ desktop' = [desktop EXCEPT !.pc = "chroot"]
    /\ UNCHANGED <<lool, comp, sys, sessionVars, transfer>>

Chroot ==
    /\ desktop.pc = "chroot"
    /\ desktop' = [desktop EXCEPT !.pc = "chdir"]
    /\ UNCHANGED <<lool, comp, sys, sessionVars, transfer>>

ChrootFails ==
    /\ desktop.pc = "chroot"
    /\ desktop' = Exit(desktop, "EXIT_UNAVAILABLE")
    /\ Failed(DesktopProc, "chroot")
    /\ UNCHANGED <<lool, comp, sessionVars, transfer>>

Chdir ==
    /\ desktop.pc = "chdir"
    /\ desktop' = [desktop EXCEPT !.pc = "dropcap"]
    /\ UNCHANGED <<lool, comp, sys, sessionVars, transfer>>

ChdirFails ==
    /\ desktop.pc = "chdir"
    /\ desktop' = Exit(desktop, "EXIT_UNAVAILABLE")
    /\ Failed(DesktopProc, "chdir")
    /\ UNCHANGED <<lool, comp, sessionVars, transfer>>

DesktopDropCapability ==
    /\ desktop.pc = "dropcap"
    /\ desktop' = [desktop EXCEPT !.pc = "mutexlock"]
    /\ UNCHANGED <<lool, comp, sys, sessionVars, transfer>>

\* cap_get_proc, cap_set_flag or cap_set_proc fails: exit(1)
DesktopDropCapabilityFails ==
    /\ desktop.pc = "dropcap"
    /\ desktop' = Exit(desktop, "1")
    /\ Failed(DesktopProc, "capability")
    /\ UNCHANGED <<lool, comp, sessionVars, transfer>>

\* namedMutexLOOL.lock(), then startupComponent(_numPreSpawnedChildren)
\* sets its counter
NamedMutexLock ==
    /\ desktop.pc = "mutexlock"
    /\ sys.namedMutex = NoProc
    /\ sys' = [sys EXCEPT !.namedMutex = DesktopProc]
    /\ desktop' = [desktop EXCEPT !.pc = "startup",
                                  !.nCntr = sys.numPreSpawnedChildren]
    /\ UNCHANGED <<lool, comp, sessionVars, transfer>>

\* ------------------------------------------------------- createComponent
\* pids not given to a process yet
FreePids == {p \in Pids : comp[p].pc = "none"}

\* the pid fork() returns
NewPid == CHOOSE p \in FreePids : \A q \in FreePids : p <= q

\* the child side of fork() in createComponent: componentMain starts with
\* a copy of _childId, inside the root directory of the parent
Forked(origin) ==
    comp' = [comp EXCEPT ![NewPid] =
                [NoComp EXCEPT !.pc = "lok_init", !.childId = desktop.childId,
                               !.jail = desktop.jail, !.origin = origin]]

\* the parent side: addPendingChildrem(pid), _childProcesses[pid] = pid
Parent(d) ==
    [d EXCEPT !.pending = @ + 1,
              !.childProcesses = @ \cup {Component(NewPid)}]

\* startupComponent: one turn of the loop, fork() succeeds
StartupFork ==
    /\ desktop.pc = "startup"
    /\ desktop.nCntr > 0
    /\ FreePids # {}
    /\ Forked("startup")
    /\ desktop' = [Parent(desktop) EXCEPT !.nCntr = @ - 1]
    /\ UNCHANGED <<lool, sys, sessionVars, transfer>>

\* fork() fails: createComponent returns EXIT_UNAVAILABLE, which is not
\* < 0, so the loop goes on
StartupForkFails ==
    /\ desktop.pc = "startup"
    /\ desktop.nCntr > 0
    /\ desktop' = [desktop EXCEPT !.nCntr = @ - 1]
    /\ Failed(DesktopProc, "fork")
    /\ UNCHANGED <<lool, comp, sessionVars, transfer>>

\* the server for clients is started on portNumber
StartClientServer ==
    /\ desktop.pc = "startup"
    /\ desktop.nCntr = 0
    /\ desktop' = [desktop EXCEPT !.pc = "listen2",
                                  !.listening = @ \cup {DEFAULT_CLIENT_PORT_NUMBER}]
    /\ UNCHANGED <<lool, comp, sys, sessionVars, transfer>>

\* the server for child processes is started on MASTER_PORT_NUMBER
StartChildServer ==
    /\ desktop.pc = "listen2"
    /\ desktop' = [desktop EXCEPT !.pc = "mutexunlock",
                                  !.listening = @ \cup {MASTER_PORT_NUMBER}]
    /\ UNCHANGED <<lool, comp, sys, sessionVars, transfer>>

\* A Poco exception leaves desktopMain (a directory that cannot be made, a
\* port that cannot be bound): nothing on the way up catches it before
\* the application does, and the process ends.  The named mutex is not
\* unlocked by any statement.
DesktopThrows ==
    /\ \/ desktop.pc = "jail"
       \/ desktop.pc = "startup" /\ desktop.nCntr = 0
       \/ desktop.pc = "listen2"
    /\ desktop' = Exit(desktop, "exception")
    /\ UNCHANGED <<lool, comp, sys, sessionVars, transfer>>

NamedMutexUnlock ==
    /\ desktop.pc = "mutexunlock"
    /\ sys' = [sys EXCEPT !.namedMutex = NoProc]
    /\ desktop' = [desktop EXCEPT !.pc = "reap"]
    /\ UNCHANGED <<lool, comp, sessionVars, transfer>>

\* ------------------------------------------------------- the reaper loop
\* children that have ended and that no waitpid has reported yet
Zombies == {p \in Pids : comp[p].pc = "exited" /\ ~comp[p].reaped}

\* _childProcesses.size() is 0: the loop ends
ReaperLoopEnds ==
    /\ desktop.pc = "reap"
    /\ desktop.childProcesses = {}
    /\ desktop' = [desktop EXCEPT !.pc = "terminate"]
    /\ UNCHANGED <<lool, comp, sys, sessionVars, transfer>>

\* waitpid(-1, &status, WUNTRACED | WNOHANG) reports a child that has
\* ended, if there is one; the loop prints a line for it, and nothing
\* else.  (With no child to report, status is read uninitialised; only the
\* print depends on it.)
ReaperWait ==
    /\ desktop.pc = "reap"
    /\ desktop.childProcesses # {}
    /\ IF Zombies = {}
       THEN comp' = comp
       ELSE \E p \in Zombies : comp' = [comp EXCEPT ![p].reaped = TRUE]
    /\ desktop' = [desktop EXCEPT !.pc = "check"]
    /\ UNCHANGED <<lool, sys, sessionVars, transfer>>

\* the condition of the respawn with the pending count left out
SpawnNeededAvailableOnly == desktop.available = 0

\* getAvailableChildSessions() == 0 && getPendingPreSpawnedChildren() == 0
SpawnNeeded == desktop.available = 0 /\ desktop.pending = 0

ReaperFork ==
    /\ desktop.pc = "check"
    /\ SpawnNeeded
    /\ FreePids # {}
    /\ Forked("reaper")
    /\ desktop' = [Parent(desktop) EXCEPT !.pc = "reap"]
    /\ UNCHANGED <<lool, sys, sessionVars, transfer>>

\* fork() fails: createComponent() < 0 is false and the loop goes on
ReaperForkFails ==
    /\ desktop.pc = "check"
    /\ SpawnNeeded
    /\ desktop' = [desktop EXCEPT !.pc = "reap"]
    /\ Failed(DesktopProc, "fork")
    /\ UNCHANGED <<lool, comp, sessionVars, transfer>>

ReaperSkip ==
    /\ desktop.pc = "check"
    /\ ~SpawnNeeded
    /\ desktop' = [desktop EXCEPT !.pc = "reap"]
    /\ UNCHANGED <<lool, comp, sys, sessionVars, transfer>>

\* every pid of the table is requested to terminate; exit(EXIT_OK)
DesktopTerminate ==
    /\ desktop.pc = "terminate"
    /\ sys' = [sys EXCEPT !.termReq = @ \cup desktop.childProcesses]
    /\ desktop' = Exit(desktop, "EXIT_OK")
    /\ UNCHANGED <<lool, comp, sessionVars, transfer>>

\* ---------------------------------------------------------- componentMain
\* the desktop process is there to accept a connection on the port
Accepting(port) == port \in desktop.listening /\ desktop.pc # "exited"

\* lok_init_2 returns the document engine
ComponentInit ==
    /\ \E p \in Pids :
          /\ comp[p].pc = "lok_init"
          /\ comp' = [comp EXCEPT ![p].pc = "lock"]
    /\ UNCHANGED <<lool, desktop, sys, sessionVars, transfer>>

\* lok_init_2 returns null and componentMain returns to createComponent
ComponentInitFailsReturns ==
    /\ \E p \in Pids :
          /\ comp[p].pc = "lok_init"
          /\ comp' = [comp EXCEPT ![p].pc = "createComponent",
                                  ![p].status = "EXIT_UNAVAILABLE"]
          /\ Failed(Component(p), "engine")
    /\ UNCHANGED <<lool, desktop, sessionVars, transfer>>

\* lok_init_2 returns null: exit(EXIT_UNAVAILABLE)
ComponentInitFails ==
    /\ \E p \in Pids :
          /\ comp[p].pc = "lok_init"
          /\ comp' = [comp EXCEPT ![p] = Exit(@, "EXIT_UNAVAILABLE")]
          /\ Failed(Component(p), "engine")
    /\ UNCHANGED <<lool, desktop, sessionVars, transfer>>

\* the named mutex taken without waiting for it to be free
ComponentLockNoWait ==
    /\ \E p \in Pids :
          /\ comp[p].pc = "lock"
          /\ comp' = [comp EXCEPT ![p].pc = "unlock", ![p].locked = TRUE]
    /\ UNCHANGED <<lool, desktop, sys, sessionVars, transfer>>

\* namedMutexLOOL.lock()
ComponentLock ==
    /\ \E p \in Pids :
          /\ comp[p].pc = "lock"
          /\ sys.namedMutex = NoProc
          /\ sys' = [sys EXCEPT !.namedMutex = Component(p)]
          /\ comp' = [comp EXCEPT ![p].pc = "unlock", ![p].locked = TRUE]
    /\ UNCHANGED <<lool, desktop, sessionVars, transfer>>

\* namedMutexLOOL.unlock()
ComponentUnlock ==
    /\ \E p \in Pids :
          /\ comp[p].pc = "unlock"
          /\ sys' = [sys EXCEPT !.namedMutex =
                        IF @ = Component(p) THEN NoProc ELSE @]
          /\ comp' = [comp EXCEPT ![p].pc = "connect"]
    /\ UNCHANGED <<lool, desktop, sessionVars, transfer>>

\* The WebSocket to 127.0.0.1:MASTER_PORT_NUMBER is opened and "child
\* <_childId>" is sent; the master, on reading it, counts the child as
\* connected: one pending child less, one available session more.  With
\* nobody accepting, the constructor throws, componentMain catches the
\* exception and the process ends with exit(EXIT_OK).
ComponentConnect ==
    /\ \E p \in Pids :
          /\ comp[p].pc = "connect"
          /\ IF Accepting(MASTER_PORT_NUMBER)
             THEN /\ comp' = [comp EXCEPT ![p].pc = "serving", ![p].tried = TRUE,
                                          ![p].hello = TRUE]
                  /\ desktop' = [desktop EXCEPT
                                    !.pending = IF @ > 0 THEN @ - 1 ELSE 0,
                                    !.available = @ + 1]
             ELSE /\ comp' = [comp EXCEPT
                                ![p] = Exit([@ EXCEPT !.tried = TRUE], "EXIT_OK")]
                  /\ UNCHANGED desktop
    /\ UNCHANGED <<lool, sys, sessionVars, transfer>>

\* a client connects and the master assigns it an available child session
ClientPairs ==
    /\ desktop.available > 0
    /\ \E p \in Pids :
          /\ comp[p].pc = "serving"
          /\ comp' = [comp EXCEPT ![p].pc = "paired"]
    /\ desktop' = [desktop EXCEPT !.available = @ - 1]
    /\ UNCHANGED <<lool, sys, sessionVars, transfer>>

\* the receive loop of a connected child ends (the connection is closed,
\* or the process is killed): exit(EXIT_OK).  A session that was available
\* is available no more.
ComponentExits ==
    /\ \E p \in Pids :
          /\ comp[p].pc \in {"serving", "paired"}
          /\ comp' = [comp EXCEPT ![p] = Exit(@, "EXIT_OK")]
          /\ desktop' = [desktop EXCEPT !.available =
                            IF comp[p].pc = "serving" /\ @ > 0 THEN @ - 1 ELSE @]
    /\ UNCHANGED <<lool, sys, sessionVars, transfer>>

\* ---------------------------------------------------------- specification
Main ==
    \/ MainCacheInaccessible
    \/ MainRngLock
    \/ MainDraw1
    \/ MainDraw2
    \/ MainRngUnlock
    \/ CreateDesktop
    \/ CreateDesktopForkFails
    \/ MainDropCapability
    \/ MainDropCapabilityFails
    \/ MainWait
    \/ MainTerminate

Desktop ==
    \/ DesktopRngLock
    \/ DesktopDraw1
    \/ DesktopDraw2
    \/ DesktopRngUnlock
    \/ CreateJail
    \/ LinkFile
    \/ LinkFileFails
    \/ SkipSymlink
    \/ VisitDirectory
    \/ WalkAborts
    \/ MakeDeviceNodes
    \/ Chroot
    \/ ChrootFails
    \/ Chdir
    \/ ChdirFails
    \/ DesktopDropCapability
    \/ DesktopDropCapabilityFails
    \/ NamedMutexLock
    \/ StartupFork
    \/ StartupForkFails
    \/ StartClientServer
    \/ StartChildServer
    \/ DesktopThrows
    \/ NamedMutexUnlock
    \/ ReaperLoopEnds
    \/ ReaperWait
    \/ ReaperFork
    \/ ReaperForkFails
    \/ ReaperSkip
    \/ DesktopTerminate

Components ==
    \/ ComponentInit
    \/ ComponentInitFails
    \/ ComponentLock
    \/ ComponentUnlock
    \/ ComponentConnect
    \/ ClientPairs
    \/ ComponentExits

NextSupervisor == Main \/ Desktop \/ Components

SpecSupervisor == InitSupervisor /\ [][NextSupervisor]_vars

\* ----------------------------------------------------------- file transfer
\* FileTransferHandler: one thread of loolMain, one command at a time.  A
\* file is the contents at its path, or Absent.
Absent == "absent"

\* the commands a peer sends: well-formed with and without surplus blanks,
\* one path only, three paths
Commands ==
    {<<"s", " ", "d">>, <<" ", "s", " ", " ", "d">>, <<"s">>,
     <<"s", " ", "d", " ", "x">>}

InitTransfer ==
    /\ NoSession
    /\ NoSupervisor
    /\ \E src \in {Absent, "new"}, dst \in {Absent, "old", "new"},
          parent \in BOOLEAN, sameDevice \in BOOLEAN :
          /\ dst # Absent => parent
          /\ transfer = [pc |-> "receive", command |-> <<>>, reply |-> "",
                         files |-> (<<"s">> :> src) @@ (<<"d">> :> dst),
                         parent |-> parent, sameDevice |-> sameDevice,
                         mutex |-> FALSE]

\* the tokens of the command in hand, and the paths made of them
tokens == StringTokenizer(transfer.command)

aSrcFile == tokens[1]

aDstFile == tokens[2]

\* ds.receiveMessage(command), then the lock on _mutex
ReceiveMessage ==
    /\ transfer.pc = "receive"
    /\ \E command \in Commands :
          transfer' = [transfer EXCEPT !.pc = "tokens", !.command = command,
                                       !.reply = "", !.mutex = TRUE]
    /\ UNCHANGED <<supVars, sessionVars>>

\* tokens.count() != 2: the reply is the complaint
TransferRejects ==
    /\ transfer.pc = "tokens"
    /\ Len(tokens) # 2
    /\ transfer' = [transfer EXCEPT !.pc = "send", !.reply = "needed"]
    /\ UNCHANGED <<supVars, sessionVars>>

\* File(aDstPath).createDirectories()
CreateDirectories ==
    /\ transfer.pc = "tokens"
    /\ Len(tokens) = 2
    /\ transfer' = [transfer EXCEPT !.pc = "link", !.parent = TRUE]
    /\ UNCHANGED <<supVars, sessionVars>>

\* createDirectories throws: the reply is the text of the exception
CreateDirectoriesThrows ==
    /\ transfer.pc = "tokens"
    /\ Len(tokens) = 2
    /\ ~transfer.parent
    /\ transfer' = [transfer EXCEPT !.pc = "send", !.reply = "exception"]
    /\ UNCHANGED <<supVars, sessionVars>>

\* link() succeeds: the destination is the source under a second name
Link ==
    /\ transfer.pc = "link"
    /\ transfer.files[aSrcFile] # Absent
    /\ transfer.files[aDstFile] = Absent
    /\ transfer.sameDevice
    /\ transfer' = [transfer EXCEPT !.pc = "fallback",
                                    !.files[aDstFile] = transfer.files[aSrcFile]]
    /\ UNCHANGED <<supVars, sessionVars>>

\* link() returns -1 (EEXIST, EXDEV, ENOENT, EPERM...): logged only
LinkFails ==
    /\ transfer.pc = "link"
    /\ transfer' = [transfer EXCEPT !.pc = "fallback"]
    /\ UNCHANGED <<supVars, sessionVars>>

\* the destination does not exist: File(aSrcFile).copyTo(aDstFile)
CopyTo ==
    /\ transfer.pc = "fallback"
    /\ transfer.files[aDstFile] = Absent
    /\ transfer.files[aSrcFile] # Absent
    /\ transfer' = [transfer EXCEPT !.pc = "send", !.reply = "OK",
                                    !.files[aDstFile] = transfer.files[aSrcFile]]
    /\ UNCHANGED <<supVars, sessionVars>>

\* copyTo throws: the reply is the text of the exception
CopyToThrows ==
    /\ transfer.pc = "fallback"
    /\ transfer.files[aDstFile] = Absent
    /\ transfer' = [transfer EXCEPT !.pc = "send", !.reply = "exception"]
    /\ UNCHANGED <<supVars, sessionVars>>

\* File(aDstFile).exists(): nothing is copied
Exists ==
    /\ transfer.pc = "fallback"
    /\ transfer.files[aDstFile] # Absent
    /\ transfer' = [transfer EXCEPT !.pc = "send", !.reply = "OK"]
    /\ UNCHANGED <<supVars, sessionVars>>

\* ds.sendMessage(reply); the lock ends with the iteration
SendMessage ==
    /\ transfer.pc = "send"
    /\ transfer' = [transfer EXCEPT !.pc = "receive", !.mutex = FALSE]
    /\ UNCHANGED <<supVars, sessionVars>>

NextTransfer ==
    \/ ReceiveMessage
    \/ TransferRejects
    \/ CreateDirectories
    \/ CreateDirectoriesThrows
    \/ Link
    \/ LinkFails
    \/ CopyTo
    \/ CopyToThrows
    \/ Exists
    \/ SendMessage

SpecTransfer == InitTransfer /\ [][NextTransfer]_vars

\* ------------------------------------------------------ the receive buffers
\* The two receive loops, with each frame stood for by its length in bytes:
\* client.script holds the frames on their way to the master, wire those on
\* their way to a child, rlog and cqueue what the receivers took in.
MasterBuffer == 100000

ChildBuffer == 1024

FrameLengths ==
    {1, ChildBuffer, ChildBuffer + 1, MasterBuffer, MasterBuffer + 1}

\* the frames in flight on one connection
InFlight ==
    {[i \in 1..n |-> s[i]] : n \in 0..MaxFrames, s \in [1..MaxFrames -> FrameLengths]}

\* the state of the session but for the channels and the two receivers
InitFrames ==
    /\ NoSupervisor
    /\ NoTransfer
    /\ paired = TRUE
    /\ request = [upgrade |-> TRUE, uri |-> "/ws",
                  port |-> DEFAULT_CLIENT_PORT_NUMBER]
    /\ kind = "ToClient"
    /\ rbuf = None
    /\ rsize = 0
    /\ queue = <<>>
    /\ cpc = "idle"
    /\ cin = None
    /\ rlog = <<>>
    /\ handled = <<>>
    /\ seen = {}
    /\ exc = "none"
    /\ failed = FALSE
    /\ InitChild
    /\ \/ /\ rpc = "recv"
          /\ \E s \in InFlight : client = [free |-> FALSE, script |-> s]
          /\ wire = <<>>
       \/ /\ rpc = "none"
          /\ client = [free |-> FALSE, script |-> <<>>]
          /\ wire \in InFlight

\* ws->receiveFrame(buffer, sizeof(buffer), flags) in handleRequest
ReceiveFrame ==
    /\ rpc = "recv"
    /\ client.script # <<>>
    /\ Head(client.script) <= MasterBuffer
    /\ rlog' = Append(rlog, Head(client.script))
    /\ client' = [client EXCEPT !.script = Tail(@)]
    /\ UNCHANGED <<paired, request, kind, rpc, rbuf, rsize, queue, cpc, cin, handled,
                   seen, exc, failed>>
    /\ UNCHANGED <<wire, childVars, supVars, transfer>>

\* the payload is longer than the buffer: receiveFrame throws
ReceiveFrameThrows ==
    /\ rpc = "recv"
    /\ client.script # <<>>
    /\ Head(client.script) > MasterBuffer
    /\ exc' = Outcome("WebSocketException")
    /\ rpc' = AfterThrow("WebSocketException")
    /\ UNCHANGED <<client, paired, request, kind, rbuf, rsize, queue, cpc, cin, rlog,
                   handled, seen, failed>>
    /\ UNCHANGED <<wire, childVars, supVars, transfer>>

\* ws->receiveFrame(buffer, sizeof(buffer), flags) in componentMain
ChildReceiveFrame ==
    /\ crpc = "recv"
    /\ wire # <<>>
    /\ Head(wire) <= ChildBuffer
    /\ cqueue' = put(cqueue, Head(wire))
    /\ wire' = Tail(wire)
    /\ UNCHANGED <<crpc, ccpc, ccin, chandled, cseen>>
    /\ UNCHANGED <<masterVars, supVars, transfer>>

\* the payload is longer than the buffer: receiveFrame throws, the catch
\* clauses of componentMain log, then exit(EXIT_OK)
ChildReceiveFrameThrows ==
    /\ crpc = "recv"
    /\ wire # <<>>
    /\ Head(wire) > ChildBuffer
    /\ crpc' = "exit"
    /\ ccpc' = "killed"
    /\ UNCHANGED <<wire, cqueue, ccin, chandled, cseen>>
    /\ UNCHANGED <<masterVars, supVars, transfer>>

NextReceive ==
    \/ ReceiveFrame
    \/ ReceiveFrameThrows
    \/ ChildReceiveFrame
    \/ ChildReceiveFrameThrows

SpecFrames == InitFrames /\ [][NextReceive]_vars


\* =========================================================================
\* Properties
\* =========================================================================
TileTok == <<"t", "i", "l", "e">>

Tokens(x) == StringTokenizer(getFirstLine(x))

\* every text that can be in a queue, on the wire or given to handleInput
Texts ==
    LET sent == Frames \cup {CancelScenario[i] : i \in DOMAIN CancelScenario}
    IN  sent \cup {getFirstLine(f) : f \in sent} \cup {EofText, <<>>}

\* A tile frame of the wire protocol: the first line is the command tile,
\* at the start of the line, followed by parameters.
TileFrame(x) ==
    /\ Len(Tokens(x)) >= 2
    /\ Tokens(x)[1] = TileTok
    /\ x[1] # " "

TileTexts == {x \in Texts : TileFrame(x)}
IdTexts == {x \in Texts : Find(getFirstLine(x), IdMark) # npos}
CancelTexts == {x \in Texts : IsCancelTiles(Tokens(x))}
NextMessageTexts == {x \in Texts : IsNextMessage(Tokens(x))}

IsTileFrame(x) == x \in TileTexts
HasId(x) == x \in IdTexts
IsCancelFrame(x) == x \in CancelTexts
IsNextMessageFrame(x) == x \in NextMessageTexts

\* every text in the state is one of Texts, so the sets above decide it
TextsCover ==
    /\ \A i \in DOMAIN rlog : rlog[i] \in Texts
    /\ \A i \in DOMAIN queue : queue[i].text \in Texts
    /\ \A i \in DOMAIN cqueue : cqueue[i].text \in Texts
    /\ \A i \in DOMAIN wire : wire[i].text \in Texts
    /\ \A i \in DOMAIN handled : handled[i].text \in Texts
    /\ \A i \in DOMAIN chandled : chandled[i].text \in Texts

Range(q) == {q[i] : i \in DOMAIN q}

HandledIds(h) == {h[i].id : i \in DOMAIN h}

Common(q1, q2) == SelectSeq(q1, LAMBDA e : e \in Range(q2))

\* a step that leaves every tile with id= where it is, unless the consumer
\* takes the head or the receiver clears the queue at close
KeepsIdTiles(q, qNew, consumerAt, receiverAt) ==
    \/ consumerAt = "get" /\ q # <<>> /\ qNew = Tail(q)
    \/ receiverAt = "clear"
    \/ /\ \A i \in DOMAIN q :
             IsTileFrame(q[i].text) /\ HasId(q[i].text) => q[i] \in Range(qNew)
       /\ Common(q, qNew) = Common(qNew, q)

\* C2: no step other than the consumer's get and the clear at close removes
\* a queued tile frame with id=, and the frames that stay keep their order;
\* in particular no canceltiles removes one.
C2_IdTileSurvives ==
    [][/\ KeepsIdTiles(queue, queue', cpc, rpc)
       /\ KeepsIdTiles(cqueue, cqueue', ccpc, crpc)]_vars

\* a tile with id= was in the queue at a canceltiles and was handled later
C2_Witness ==
    \E i \in DOMAIN handled :
        /\ handled[i].id \in seen
        /\ handled[i].by = "consumer"
        /\ IsTileFrame(handled[i].text) /\ HasId(handled[i].text)

NoCancelReceived == \A i \in DOMAIN rlog : ~IsCancelFrame(rlog[i])

\* C3: on a ToClient session that received no canceltiles, handleInput sees
\* the frames in the order received, single-line and multi-line alike.
C3_HandledInReceiveOrder ==
    kind = "ToClient" /\ NoCancelReceived =>
        \A i, j \in DOMAIN handled : i < j => handled[i].id < handled[j].id


\* ------------------------------------------------------------------- C4
ChildHandledTile ==
    \E i \in DOMAIN chandled :
        IsTileFrame(chandled[i].text) /\ ~HasId(chandled[i].text)

ChildHandledCancel == \E i \in DOMAIN chandled : IsCancelFrame(chandled[i].text)

\* the child has taken in everything the master sent and is idle
ChildDrained ==
    /\ wire = <<>>
    /\ cqueue = <<>>
    /\ crpc = "recv"
    /\ ccpc = "get"

\* C4 as stated: in the cancel scenario neither tile is ever delivered to
\* the child's handleInput, and once the child has taken in the forwarded
\* canceltiles it has delivered it to its handleInput.
C4_Original ==
    /\ ~ChildHandledTile
    /\ (ChildDrained /\ cseen # {} => ChildHandledCancel)

\* C4 amended: a tile still queued at the master or at the child when the
\* canceltiles is handled there never reaches the child's handleInput; the
\* canceltiles is passed to the master session's handleInput on the receiver
\* thread as it is received; the child never passes it to its handleInput.
C4_CancelScenario ==
    /\ \A i \in DOMAIN chandled : chandled[i].id \notin (seen \cup cseen)
    /\ ~ChildHandledCancel
    /\ \A k \in DOMAIN rlog :
          IsCancelFrame(rlog[k]) =>
              \E i \in DOMAIN handled :
                  handled[i].id = k /\ handled[i].by = "receiver"
    /\ \A i \in DOMAIN handled :
          handled[i].id \in seen => ~IsTileFrame(handled[i].text)

\* the second tile was pruned at the master, the first at the child
C4_Witness ==
    /\ 2 \in seen
    /\ 1 \in cseen
    /\ cqueue = <<>>
    /\ rpc = "recv"

\* ------------------------------------------------------------------- C5
\* C5: every canceltiles frame a ToClient session has received was passed
\* to handleInput by the receiver thread as part of receiving it, and no
\* canceltiles is ever in the queue or handled by the consumer; this holds
\* too when the queue was empty.
C5_CancelHandledSynchronously ==
    kind = "ToClient" =>
        /\ \A k \in DOMAIN rlog :
              IsCancelFrame(rlog[k]) =>
                  \E i \in DOMAIN handled :
                      /\ handled[i].id = k
                      /\ handled[i].by = "receiver"
                      /\ handled[i].text = rlog[k]
        /\ \A i \in DOMAIN queue : ~IsCancelFrame(queue[i].text)
        /\ \A i \in DOMAIN handled :
              IsCancelFrame(handled[i].text) => handled[i].by = "receiver"

\* a canceltiles that found the queue empty is being handled
C5_Witness ==
    /\ kind = "ToClient"
    /\ rpc = "forward"
    /\ IsCancelFrame(rbuf.text)
    /\ seen = {}
    /\ queue = <<>>

\* ------------------------------------------------------------------- C6
\* C6: on every polarity the "nextmessage: size=N" line is never queued and
\* never passed to handleInput.
C6_NextMessageNeverDelivered ==
    /\ \A i \in DOMAIN queue : ~IsNextMessageFrame(queue[i].text)
    /\ \A i \in DOMAIN handled : ~IsNextMessageFrame(handled[i].text)

\* ------------------------------------------------------------------- C7
\* C7: once a handleInput of the session has returned false, the receiver
\* reads no further frame and no further frame is handled.
C7_FalseClosesSession ==
    [][failed => rlog' = rlog /\ handled' = handled]_vars

\* ------------------------------------------------------------------- C8
Closing == rpc \in {"puteof", "join", "done"}

\* C8: after the receiver has left its loop and cleared the queue, the queue
\* holds nothing but the "eof" put after the clear, no handleInput is started
\* any more, and the consumer exits and the handler returns.
C8_HardCancellation ==
    /\ [][Closing => handled' = handled]_vars
    /\ [](Closing => queue \in {<<>>, <<EofElem>>})
    /\ [](rpc = "puteof" => queue = <<>>)
    /\ (rpc = "clear" ~> rpc = "done")

\* frames were pending when the peer closed, none of them was handled, and
\* the handler has returned
C8_Witness ==
    /\ kind = "ToClient"
    /\ exc = "none"
    /\ ~failed
    /\ rpc = "done"
    /\ cpc = "exit"
    /\ Len(rlog) >= 2
    /\ handled = <<>>

\* ------------------------------------------------------------------- C9
\* C9: once a ToClient session is closed (cleared and "eof" put), its queue
\* is exactly <<"eof">> for as long as the consumer has not terminated, so
\* that is what the consumer finds when it observes termination.
C9_OnlyEofAtTermination ==
    kind = "ToClient" /\ rpc \in {"join", "done"} /\ cpc \in {"get", "handling"}
        => queue = <<EofElem>>

\* the session closed with frames pending while the consumer was busy
C9_Witness ==
    /\ kind = "ToClient"
    /\ rpc = "join"
    /\ cpc = "handling"
    /\ queue = <<EofElem>>
    /\ Len(rlog) = 3
    /\ Len(handled) = 1

\* ------------------------------------------------------------------ C10
\* C10: after an exception of whatever type the handler returns only with
\* the consumer thread joined (or never started), the process running.
C10_AnyExceptionClosesSession ==
    exc # "none" /\ rpc \in {"done", "escaped"} => cpc \in {"idle", "exit"}

\* ------------------------------------------------------------------ C11
\* C11: once the upgrade of an accepted connection has succeeded, the
\* session is ToPrisoner exactly when the request URI is /loolws/child/ and
\* the connection came in on the internal port; otherwise it is ToClient.
C11_PolarityByUriAndPort ==
    kind # "none" =>
        /\ kind \in {"ToPrisoner", "ToClient"}
        /\ kind = "ToPrisoner" <=>
               (request.uri = CHILD_URI /\ request.port = MASTER_PORT_NUMBER)

\* the child URI on the public port made a ToClient session, which has
\* received a frame
C11_Witness ==
    /\ kind = "ToClient"
    /\ request.uri = CHILD_URI
    /\ request.port = DEFAULT_CLIENT_PORT_NUMBER
    /\ rlog # <<>>

\* ------------------------------------------------------------------ C12
\* C12: no two child processes forked by the supervisor announce the same
\* ChildId in their hello frame, and no two of them use the same jail
\* directory.
C12_ChildIdNamesOneChild ==
    \A p, q \in Pids :
        p # q /\ comp[p].hello /\ comp[q].hello =>
            /\ comp[p].childId # comp[q].childId
            /\ comp[p].jail # comp[q].jail

\* ------------------------------------------------------------------ C13
Odd(v) == v[0] = 1

NonZero(v) == \E i \in DOMAIN v : v[i] = 1

\* the step of a process that assigns _childId from its two draws
Generates(process, processNext) ==
    process.pc = "draw2" /\ processNext.pc = "rngunlock"

\* C13: the ChildId a process generates as (draw1 << 32) | draw2 | 1 is
\* nonzero and odd whatever the draws, so is every ChildId a forked child
\* starts with, and a process takes both draws holding its _rngMutex.
C13_ChildIdOddNonzero ==
    /\ [][/\ Generates(lool, lool') =>
                Odd(lool'.childId) /\ NonZero(lool'.childId)
          /\ Generates(desktop, desktop') =>
                Odd(desktop'.childId) /\ NonZero(desktop'.childId)]_vars
    /\ [](\A p \in Pids :
            comp[p].pc # "none" =>
                Odd(comp[p].childId) /\ NonZero(comp[p].childId))
    /\ [](lool.pc \in {"draw1", "draw2"} => lool.rngMutex)
    /\ [](desktop.pc \in {"draw1", "draw2"} => desktop.rngMutex)

\* two all-zero draws gave the main process the ChildId 1, two all-one
\* draws gave the desktop process the ChildId of 64 one bits
C13_Witness ==
    /\ lool.childId = One64
    /\ desktop.pc = "jail"
    /\ \A i \in DOMAIN desktop.childId : desktop.childId[i] = 1

\* ------------------------------------------------------------------ C14
Live(p) == comp[p].pc \notin {"none", "exited"}

\* C14: the child table of the supervisor keeps no entry for a child that
\* the reaper's waitpid has reported, and has the entry of every live child.
C14_ReapedChildLeavesTable ==
    \A p \in Pids :
        /\ comp[p].reaped => Component(p) \notin desktop.childProcesses
        /\ Live(p) => Component(p) \in desktop.childProcesses

\* ------------------------------------------------------------------ C15
\* the reaper forks a child in this step
ReaperForks ==
    /\ desktop.pc = "check"
    /\ \E p \in Pids : comp[p].pc = "none" /\ comp'[p].pc # "none"

\* the reaper has called fork() in this step: there is a new child, or
\* the failure of a fork() is on record
ReaperCallsFork ==
    ReaperForks \/ (desktop.pc = "check" /\ Fatal(DesktopProc, "fork") \in sys'.fatal)

\* C15: the reaper forks only with availableChildSessions and
\* pendingPreSpawned both 0, and then it does call fork; a fork it performs
\* makes pendingPreSpawned 1, which keeps it from forking again until that
\* child has connected.
C15_RespawnOnlyWhenNoneLeft ==
    [][/\ ReaperForks =>
            /\ desktop.available = 0
            /\ desktop.pending = 0
            /\ desktop'.pending = 1
       /\ (desktop.pc = "check" /\ desktop'.pc # "check"
             /\ desktop.available = 0 /\ desktop.pending = 0) => ReaperCallsFork
       /\ (desktop.pc = "check" /\ desktop'.pc # "check"
             /\ (desktop.available # 0 \/ desktop.pending # 0)) =>
                (comp' = comp /\ sys' = sys)]_vars

\* the only pre-spawned child was given to a client, and the child the
\* reaper then forked has connected
C15_Witness ==
    \E p, q \in Pids :
        /\ comp[p].origin = "startup" /\ comp[p].pc = "paired"
        /\ comp[q].origin = "reaper" /\ comp[q].pc = "serving"
        /\ desktop.pending = 0
        /\ desktop.available = 1

\* ------------------------------------------------------------------ C16
\* both servers of the desktop process have been started
ListenersStarted ==
    {DEFAULT_CLIENT_PORT_NUMBER, MASTER_PORT_NUMBER} \subseteq desktop.listening

\* C16: started with --numprespawns=0, the supervisor, once it listens,
\* stays up (to spawn a child when a client connects).
C16_PoolZeroStaysUp ==
    sys.numPreSpawnedChildren = 0 /\ ListenersStarted =>
        desktop.pc \notin {"terminate", "exited"}

\* ------------------------------------------------------------------ C17
PreSpawned(p) == comp[p].origin = "startup"

\* a pre-spawned child is forked in this step
PreSpawns == \E p \in Pids : comp[p].pc = "none" /\ PreSpawned(p)'

\* C17: the master holds the named mutex whenever it forks a pre-spawned
\* child and gives it up only with both listeners started; a child that
\* has tried its back-connection has taken and released the mutex before;
\* so a pre-spawned child tries its back-connection only with the listener
\* of the internal port started.
C17_StartupOrderedByNamedMutex ==
    /\ [][PreSpawns => sys.namedMutex = DesktopProc]_vars
    /\ [][sys.namedMutex = DesktopProc /\ sys'.namedMutex # DesktopProc =>
             ListenersStarted]_vars
    /\ [](\A p \in Pids :
            comp[p].tried => comp[p].locked /\ sys.namedMutex # Component(p))
    /\ [](\A p \in Pids :
            PreSpawned(p) /\ comp[p].tried =>
                MASTER_PORT_NUMBER \in desktop.listening)

\* two pre-spawned children waited for the mutex and have connected
C17_Witness ==
    /\ sys.numPreSpawnedChildren = 2
    /\ \A p \in 1..2 :
          PreSpawned(p) /\ comp[p].locked /\ comp[p].tried /\ comp[p].pc = "serving"

\* ------------------------------------------------------------------ C18
\* the process has gone through its shutdown: the loop that requests the
\* termination of the children, then its normal end
ShutDown(process) == process.pc = "exited" /\ process.status = "EXIT_OK"

\* C18: once a supervising process has shut down, every child process
\* still alive has been sent a termination request, the children forked
\* by createComponent included.
C18_ShutdownReachesEveryChild ==
    ShutDown(lool) \/ ShutDown(desktop) =>
        /\ \A p \in Pids : Live(p) => Component(p) \in sys.termReq
        /\ desktop.pc \notin {"none", "exited"} => DesktopProc \in sys.termReq

\* ------------------------------------------------------------------ C19
\* how the process ended, "" while it runs
StatusOf(proc) ==
    IF proc.kind = "main" THEN lool.status
    ELSE IF proc.kind = "desktop" THEN desktop.status
    ELSE comp[proc.pid].status

\* C19: a process that met a startup-fatal error (inaccessible cache,
\* fork failure, chroot or chdir failure, capability-drop failure,
\* engine-init failure) has ended there with the status "unavailable".
C19_StartupFatalExitsUnavailable ==
    \A f \in sys.fatal : StatusOf(f.proc) = "EXIT_UNAVAILABLE"

\* ------------------------------------------------------------------ C20
\* C20: every regular file of a template for which link() has been called
\* is in the jail, linked or, link() having failed, copied; the process
\* does not end over a failed link().
C20_LinkFallsBackToCopy ==
    desktop.linkTried \subseteq desktop.jailFiles

\* ------------------------------------------------------------------ C21
\* the entries of the templates that the replication creates in the jail
Replicated ==
    UNION {{<<t, i>> : i \in {j \in 1..Len(Templates[t]) :
                                  Templates[t][j] \in {"FTW_F", "FTW_DP"}}} :
           t \in 1..Len(Templates)}

\* desktopMain has gone on from the replication to the device nodes, the
\* chroot, the forks or the servers
PastReplication ==
    desktop.pc \in {"mknod", "chroot", "chdir", "dropcap", "mutexlock",
                    "startup", "listen2", "mutexunlock", "reap", "check",
                    "terminate"}

\* C21: the builder goes on from the replication to the device nodes, the
\* chroot and the forks only over a completely replicated tree; a walk
\* that an unreadable directory or a failed stat stopped ends the builder.
C21_WalkAbortIsFatal ==
    PastReplication => Replicated \subseteq desktop.jailFiles

\* ------------------------------------------------------------------ C22
\* C22: whenever the reply to a command "SRC DST" is OK, DST exists with
\* the contents of SRC and the parent directory of DST exists, whatever the
\* files were before the command.
C22_TransferOkMeansSameContents ==
    (transfer.pc = "send" /\ transfer.reply = "OK") =>
        /\ transfer.files[aDstFile] # Absent
        /\ transfer.files[aDstFile] = transfer.files[aSrcFile]
        /\ transfer.parent

\* ------------------------------------------------------------------ C23
\* C23: a frame of at most 100 000 bytes at the head of a connection is
\* taken in whole by the receiver at its end, the master's or a child's:
\* no receiver has ended with such a frame left undelivered.
C23_FrameUpTo100000Received ==
    /\ (rpc \notin {"recv", "none"} /\ client.script # <<>>) =>
           Head(client.script) > MasterBuffer
    /\ (crpc \notin {"recv", "none"} /\ wire # <<>>) =>
           Head(wire) > MasterBuffer

\* ------------------------------------------------------------------ C24
\* C24: a ToPrisoner session has a consumer beside its receiver, as a
\* ToClient session has: the consumer runs while the receiver receives,
\* and every frame of the session is handled on the consumer.
C24_PrisonerHasConsumer ==
    kind = "ToPrisoner" =>
        /\ rpc \in {"recv", "large", "handle", "forward"} => cpc # "idle"
        /\ \A i \in 1..Len(handled) : handled[i].by = "consumer"

\* ------------------------------------------------------------------ C25
\* the desktop process is in its reaper loop, every child it forked has
\* ended, and the respawn test is false
AllChildrenExited ==
    /\ desktop.pc \in {"reap", "check"}
    /\ \A p \in Pids : comp[p].pc \in {"none", "exited"}
    /\ ~SpawnNeeded

\* C25: once every child has ended and no respawn is due, the reaper loop
\* ends: the desktop process goes on to the shutdown and exits.
C25_ReaperLoopTerminates ==
    AllChildrenExited ~> desktop.pc \in {"terminate", "exited"}

\* ------------------------------------------------------------------ C26
\* the positions of desktopMain from the jail directories to the end of
\* the capability drop, in the order of the claim
SandboxSteps ==
    <<"jail", "link", "mknod", "chroot", "chdir", "dropcap", "mutexlock">>

\* the positions of desktopMain after the sandbox is complete
Sandboxed == {"startup", "listen2", "mutexunlock", "reap", "check", "terminate"}

ForksChild == \E p \in Pids : comp[p].pc = "none" /\ comp'[p].pc # "none"

StartsListener == desktop'.listening # desktop.listening

EngineInit(p) == comp[p].pc = "lok_init" /\ comp'[p].pc # "lok_init"

\* C26: the builder of the jail enters each step of the sandbox from the
\* step before it only (jail directories, replication, device nodes,
\* chroot, chdir, capability drop), and forks a child or starts a listener
\* only with all of them done; the engine is initialised only in a child
\* forked that way.
C26_SandboxBeforeForkAndListen ==
    [][/\ \A i \in 2..Len(SandboxSteps) :
             (desktop'.pc = SandboxSteps[i] /\ desktop.pc # SandboxSteps[i]) =>
                 desktop.pc = SandboxSteps[i - 1]
       /\ (desktop'.pc \in Sandboxed /\ desktop.pc \notin Sandboxed) =>
              desktop.pc = "mutexlock"
       /\ (ForksChild \/ StartsListener) => desktop.pc \in Sandboxed
       /\ \A p \in Pids : EngineInit(p) => comp[p].origin \in {"startup", "reaper"}]_vars

C26_Witness ==
    /\ desktop.jail # <<>>
    /\ desktop.listening = {DEFAULT_CLIENT_PORT_NUMBER, MASTER_PORT_NUMBER}
    /\ \E p \in Pids : comp[p].pc = "serving" /\ comp[p].jail = desktop.jail

\* ------------------------------------------------------------------ C27
\* a step that takes elements out of a queue otherwise than by the
\* consumer's get or the clear at close
Prunes(q, qNew, consumerAt, receiverAt) ==
    /\ Range(q) \ Range(qNew) # {}
    /\ ~(consumerAt = "get" /\ qNew = Tail(q))
    /\ receiverAt # "clear"

\* the frames the consumer passed to handleInput are in the order received
ConsumerInOrder(h) ==
    \A i, j \in DOMAIN h :
        (i < j /\ h[i].by = "consumer" /\ h[j].by = "consumer") => h[i].id < h[j].id

\* C27: elements are pruned from a queue in the very step in which the
\* receiver takes a canceltiles frame off its connection, so only elements
\* received before that frame go; what stays keeps its order in the queue,
\* and the consumer hands the frames to handleInput in the order received.
C27_PruningSynchronousWithReceive ==
    /\ [][Prunes(queue, queue', cpc, rpc) =>
              /\ Len(rlog') = Len(rlog) + 1
              /\ IsCancelFrame(rlog'[Len(rlog')])
              /\ \A e \in Range(queue) \ Range(queue') : e.id < Len(rlog')
              /\ Common(queue, queue') = queue']_vars
    /\ [][Prunes(cqueue, cqueue', ccpc, crpc) =>
              /\ wire # <<>> /\ wire' = Tail(wire)
              /\ IsCancelFrame(Head(wire).text)
              /\ \A e \in Range(cqueue) \ Range(cqueue') : e.id < Head(wire).id
              /\ Common(cqueue, cqueue') = cqueue']_vars
    /\ [](ConsumerInOrder(handled) /\ ConsumerInOrder(chandled))

\* a tile was pruned by a canceltiles, and a tile received after that
\* canceltiles was handled by the consumer
C27_Witness ==
    \E i \in DOMAIN handled, k \in DOMAIN rlog, j \in seen :
        /\ handled[i].by = "consumer"
        /\ IsTileFrame(handled[i].text) /\ ~HasId(handled[i].text)
        /\ IsCancelFrame(rlog[k]) /\ k < handled[i].id
        /\ j < k /\ j \notin HandledIds(handled)

\* ------------------------------------------------------------------ C28
\* C28: at no moment are the receiver and the consumer of one session both
\* inside handleInput of that session.
C28_HandleInputNeverOverlaps ==
    ~(rpc \in {"forward", "handle"} /\ cpc = "handling")

\* ------------------------------------------------------------------ C29
\* C29: the consumer of a session, the master's or the child's, leaves its
\* loop on taking an element from the queue only when the receiver has put
\* its eof at the close of the session; nothing the peer sent ends it.
C29_OnlyInjectedEofStopsConsumer ==
    [][/\ (cpc = "get" /\ cpc' = "exit") => rpc \in {"join", "done"}
       /\ (ccpc = "get" /\ ccpc' = "exit") => crpc \in {"join", "done"}]_vars

\* ------------------------------------------------------------------ C30
\* the positions inside componentMain and inside desktopMain
ComponentMainPositions ==
    {"lok_init", "lock", "unlock", "connect", "serving", "paired"}

DesktopMainPositions ==
    {"rnglock", "draw1", "draw2", "rngunlock"}
        \cup {SandboxSteps[i] : i \in DOMAIN SandboxSteps} \cup Sandboxed

\* C30: a process forked by createComponent is inside componentMain until
\* it has ended, with the status of one of the exits of componentMain, and
\* the process forked by createDesktop is inside desktopMain until it has
\* ended; a process that has ended runs nothing more.  Neither is ever in
\* the code that follows the call in createComponent or createDesktop.
C30_ChildNeverRunsSupervisorCode ==
    /\ [](\A p \in Pids :
            \/ comp[p].pc \in ComponentMainPositions \cup {"none"}
            \/ /\ comp[p].pc = "exited"
               /\ comp[p].status \in {"EXIT_OK", "EXIT_UNAVAILABLE"})
    /\ [](desktop.pc \in DesktopMainPositions \cup {"none", "exited"})
    /\ [][/\ \A p \in Pids : comp[p].pc = "exited" => comp'[p].pc = "exited"
          /\ desktop.pc = "exited" => desktop'.pc = "exited"]_vars

\* one child ended at the engine-init failure and one at the end of
\* componentMain, and the parent is still in its reaper loop
C30_Witness ==
    /\ desktop.pc \in {"reap", "check"}
    /\ \E p, q \in Pids :
          /\ comp[p].pc = "exited" /\ comp[p].status = "EXIT_UNAVAILABLE"
          /\ comp[q].pc = "exited" /\ comp[q].status = "EXIT_OK" /\ comp[q].hello

\* ------------------------------------------------------------------ C31
\* a turn of the pre-spawn loop, or a respawn of the reaper, whose fork()
\* made no child
ForkFailsAtStartup ==
    /\ desktop.pc = "startup" /\ desktop.nCntr > 0
    /\ desktop' # desktop /\ comp' = comp

ForkFailsInReaper ==
    /\ desktop.pc = "check" /\ SpawnNeeded
    /\ desktop'.pc # "check" /\ comp' = comp

\* C31: a fork() that fails in createComponent leaves the child table and
\* the pending count as they were, and ends the spawning of its caller:
\* the pre-spawn loop makes no further turn, the reaper loop is left for
\* the shutdown.
C31_ForkFailureStopsSpawning ==
    [][/\ (ForkFailsAtStartup \/ ForkFailsInReaper) =>
              /\ desktop'.childProcesses = desktop.childProcesses
              /\ desktop'.pending = desktop.pending
       /\ ForkFailsAtStartup => desktop'.nCntr = 0
       /\ ForkFailsInReaper => desktop'.pc = "terminate"]_vars

\* ------------------------------------------------------ fair specifications
\* A thread of handleRequest that can take its next step takes it (one
\* condition per thread: the close sequence of the receiver, the
\* QueueHandler), and a handleInput that is running returns.
Fairness ==
    /\ WF_vars(QueueClear \/ PutEof \/ Join)
    /\ WF_vars(ConsumerGet \/ ConsumerReturn)

FairSpec == Spec /\ Fairness

\* The desktop process is a process of its own: when it can take a step
\* it takes one.
FairSupervisor == SpecSupervisor /\ WF_vars(Desktop)

=============================================================================
